---- MODULE Spec2Model ----
(***************************************************************************)
(* AutoShade Studio: the per-image processing pipeline of App (batch       *)
(* submission, per-Job state machine, refinement) as a state machine.      *)
(*                                                                         *)
(* One action is one run of JavaScript between two suspension points: an   *)
(* event handler up to its first await (React commits the batched state    *)
(* updates once, when the run ends), or the continuation of an await.      *)
(***************************************************************************)
EXTENDS Naturals, Sequences, FiniteSets, TLC

VARIABLES
    carImages,          \* useState<File[]>: the selected car images
    backgroundImage,    \* useState<File | null>
    processedImages,    \* useState<ProcessedImage[]>: the Job collection
    isProcessing,       \* useState(false): the batch's in-progress flag
    globalError,        \* useState<string | null>
    processingMode,     \* useState<ProcessingMode>('full')
    floorEffect,        \* useState<FloorEffect>('none')
    matchReflections,   \* useState(false)
    turntableTint,      \* useState<TurntableTint>('none')
    isCorrecting,       \* ids of the mounted ImageCards whose isCorrecting is true
    tasks,              \* the async calls in flight (suspended at an await)
    batches,            \* number of accepted submissions so far (names the fresh ids)
    revoked,            \* the object URLs passed to URL.revokeObjectURL so far
    zip,                \* the entries of the archive last handed to the browser
    originalName,       \* getOutputFilename: its argument
    outputFilename,     \* getOutputFilename: its value, once computed
    promptMode,         \* processCarImage: its argument mode
    promptOptions,      \* processCarImage: its argument options
    prompt              \* processCarImage: the prompt it built, once built

vars == <<carImages, backgroundImage, processedImages, isProcessing, globalError,
          processingMode, floorEffect, matchReflections, turntableTint,
          isCorrecting, tasks, batches, revoked, zip, originalName, outputFilename,
          promptMode, promptOptions, prompt>>

\* what only the export and the naming of its entries write
download == <<zip, originalName, outputFilename>>

\* what only the building of a prompt on its own writes
service == <<promptMode, promptOptions, prompt>>

config == <<carImages, backgroundImage, processingMode, floorEffect,
            matchReflections, turntableTint>>

options == <<floorEffect, matchReflections, turntableTint>>

----------------------------------------------------------------------------
(* Bounds of the model *)

\* accepted submissions explored (each draws fresh ids)
MaxBatches == 2

\* calls that may be in flight for one Job id when handleCorrectImage is invoked
\* directly, past the card that guards it
MaxInFlight == 1

----------------------------------------------------------------------------
(* Values *)

\* null / undefined of a string-valued field (strings that the program builds
\* or takes apart are sequences of tokens, so the absent one is the empty sequence)
NULL == <<>>

\* null of a File-valued field (a File is known by its handle)
NoFile == "no file"

CarFiles == {"car1.jpg", "car2.png"}

BackgroundFiles == {"bg.jpg"}

ProcessingStatus == {"pending", "processing", "done", "error"}

ProcessingMode == {"full", "partial-wall", "turntable-tint", "tint-turntable-only"}

FloorEffect == {"none", "desaturate", "red", "yellow"}

TurntableTint == {"none", "red", "yellow"}

\* the file lists a picker or a drop hands to handleCarImagesSelected
Selections == {<<"car1.jpg">>, <<"car1.jpg", "car2.png">>}

\* the text of the refinement input, character by character
Prompts == {<<>>, <<" ">>, <<" ", "s">>}

----------------------------------------------------------------------------
(* The generation client: what processCarImage and correctImage make of a  *)
(* backend response.                                                       *)

\* a thrown value: an Error carries a message, anything else does not
Thrown(isErr, msg) == [isError |-> isErr, message |-> msg]

NothingThrown == Thrown(FALSE, NULL)

\* a part of a candidate: inline binary data tagged with a media type, or text
InlinePart(mime, data) == [kind |-> "inline", mimeType |-> mime, data |-> data, text |-> NULL]

TextPart(t) == [kind |-> "text", mimeType |-> NULL, data |-> "", text |-> t]

\* s.startsWith(prefix)
StartsWith(s, prefix) ==
    /\ Len(s) >= Len(prefix)
    /\ SubSeq(s, 1, Len(prefix)) = prefix

\* `data:${mimeType};base64,${base64Data}`
DataUrl(mime, data) == <<"data:">> \o mime \o <<";base64,", data>>

\* mutant: any inline data counts as an image
IsImagePartAnyInline(part) == part.kind = "inline"

\* part.inlineData && part.inlineData.mimeType.startsWith('image/')
IsImagePart(part) ==
    /\ part.kind = "inline"
    /\ StartsWith(part.mimeType, <<"image", "/">>)

\* the inner loop: the first image part of one candidate's parts, from part k on
RECURSIVE FirstImageInParts(_, _)
FirstImageInParts(parts, k) ==
    IF k > Len(parts) THEN NULL
    ELSE IF IsImagePart(parts[k])
         THEN DataUrl(parts[k].mimeType, parts[k].data)
         ELSE FirstImageInParts(parts, k + 1)

\* the outer loop over response.candidates ?? [], from candidate c on
RECURSIVE FirstImage(_, _)
FirstImage(candidates, c) ==
    IF c > Len(candidates) THEN NULL
    ELSE LET found == FirstImageInParts(candidates[c], 1)
         IN  IF found # NULL THEN found ELSE FirstImage(candidates, c + 1)

\* response.text of the SDK: the text parts of the first candidate, joined
\* (empty, which is falsy, when there is none)
RECURSIVE JoinText(_, _)
JoinText(parts, k) ==
    IF k > Len(parts) THEN <<>>
    ELSE parts[k].text \o JoinText(parts, k + 1)

ResponseText(candidates) ==
    IF Len(candidates) = 0 THEN NULL ELSE JoinText(candidates[1], 1)

RefusedPrefix == "API returned a text response instead of an image: "

NoImageMessage == <<"No image was generated by the API.">>

\* mutant: the text of the response is not looked at
ReadResponseIgnoringText(candidates) ==
    LET found == FirstImage(candidates, 1)
    IN  IF found # NULL THEN [ok |-> TRUE, url |-> found, thrown |-> NothingThrown]
        ELSE [ok |-> FALSE, url |-> NULL, thrown |-> Thrown(TRUE, NoImageMessage)]

\* the tail of processCarImage / correctImage after generateContent resolved:
\* the data URL of the first image part, or the Error thrown
ReadResponse(candidates) ==
    LET found == FirstImage(candidates, 1)
        textResponse == ResponseText(candidates)
    IN  IF found # NULL THEN [ok |-> TRUE, url |-> found, thrown |-> NothingThrown]
        ELSE IF textResponse # NULL
             THEN [ok |-> FALSE, url |-> NULL,
                   thrown |-> Thrown(TRUE, <<RefusedPrefix>> \o textResponse)]
             ELSE [ok |-> FALSE, url |-> NULL, thrown |-> Thrown(TRUE, NoImageMessage)]

PNG == <<"image", "/", "png">>

\* what the backend may answer to one call: it resolves with a list of
\* candidates, or the call rejects with a transport Error
Responses ==
    { << <<InlinePart(PNG, "A")>> >>,
      << <<TextPart(<<"refused">>)>> >> }

TransportError == Thrown(TRUE, <<"Failed to fetch">>)

Replies ==
    {[rejected |-> FALSE, candidates |-> r, thrown |-> NothingThrown] : r \in Responses}
      \cup {[rejected |-> TRUE, candidates |-> <<>>, thrown |-> TransportError]}

\* the value the awaited service call settles with
Settle(reply) ==
    IF reply.rejected THEN [ok |-> FALSE, url |-> NULL, thrown |-> reply.thrown]
    ELSE ReadResponse(reply.candidates)

UnknownErrorMessage == <<"An unknown error occurred.">>

\* error instanceof Error ? error.message : "An unknown error occurred."
ErrorMessageOf(thrown) ==
    IF thrown.isError THEN thrown.message ELSE UnknownErrorMessage

----------------------------------------------------------------------------
(* Jobs (ProcessedImage records) and the updates the handlers apply *)

\* mutant: the position in the batch serves as the id
NewIdByPosition(batch, i) == <<1, i>>

\* crypto.randomUUID(): a fresh id, here the batch number and the position
NewId(batch, i) == <<batch, i>>

\* URL.createObjectURL(file): a fresh blob URL
NewObjectUrl(batch, i) == <<"blob:", batch, i>>

\* one element of initialProcessedImages
NewJob(file, batch, i) ==
    [id |-> NewId(batch, i), originalFile |-> file,
     originalUrl |-> NewObjectUrl(batch, i),
     processedUrl |-> NULL, status |-> "pending", error |-> NULL]

\* mutant: the Jobs are built from the selection without its first file
InitialProcessedImagesSkipFirst(files, batch) ==
    [i \in 1..(Len(files) - 1) |-> NewJob(files[i + 1], batch, i)]

\* carImages.map(file => ({...}))
InitialProcessedImages(files, batch) ==
    [i \in 1..Len(files) |-> NewJob(files[i], batch, i)]

\* { ...p, status: 'processing' }
StartProcessing(p) == [p EXCEPT !.status = "processing"]

\* mutant: a result the Job already holds is kept
FinishDoneKeepsResult(p, resultUrl) ==
    [p EXCEPT !.status = "done",
              !.processedUrl = IF p.processedUrl # NULL THEN p.processedUrl ELSE resultUrl]

\* { ...p, status: 'done', processedUrl: resultUrl }
FinishDone(p, resultUrl) == [p EXCEPT !.status = "done", !.processedUrl = resultUrl]

\* mutant: the catch block sets the status and forgets the message
FinishErrorNoMessage(p, errorMessage) == [p EXCEPT !.status = "error"]

\* { ...p, status: 'error', error: errorMessage }
FinishError(p, errorMessage) == [p EXCEPT !.status = "error", !.error = errorMessage]

\* { ...p, status: 'processing', error: undefined }
StartCorrection(p) == [p EXCEPT !.status = "processing", !.error = NULL]

\* setProcessedImages(prev => prev.map(p => p.id === id ? {...} : p)), once for
\* each of the four updates the handlers make
MarkProcessing(prev, id) ==
    [i \in DOMAIN prev |-> IF prev[i].id = id THEN StartProcessing(prev[i]) ELSE prev[i]]

\* mutant: the success update finds its Job by its place in the collection
MarkDoneByPosition(prev, id, resultUrl) ==
    [i \in DOMAIN prev |->
        IF i = id[2] THEN FinishDone(prev[i], resultUrl) ELSE prev[i]]

MarkDone(prev, id, resultUrl) ==
    [i \in DOMAIN prev |->
        IF prev[i].id = id THEN FinishDone(prev[i], resultUrl) ELSE prev[i]]

\* mutant: the failure update forgets the id test and marks every Job
MarkErrorAll(prev, id, errorMessage) ==
    [i \in DOMAIN prev |-> FinishError(prev[i], errorMessage)]

MarkError(prev, id, errorMessage) ==
    [i \in DOMAIN prev |->
        IF prev[i].id = id THEN FinishError(prev[i], errorMessage) ELSE prev[i]]

\* mutant: the refinement's first update forgets the id test
MarkCorrectingAll(prev, id) ==
    [i \in DOMAIN prev |-> StartCorrection(prev[i])]

MarkCorrecting(prev, id) ==
    [i \in DOMAIN prev |-> IF prev[i].id = id THEN StartCorrection(prev[i]) ELSE prev[i]]

\* the synchronous part of initialProcessedImages.map(async (image) => ...):
\* the callback of image 1..k has run up to its first await
RECURSIVE StartAll(_, _, _)
StartAll(prev, initial, k) ==
    IF k = 0 THEN prev
    ELSE MarkProcessing(StartAll(prev, initial, k - 1), initial[k].id)

\* processedImages.find(p => p.id === imageId): its position, 0 when undefined
FindJob(images, imageId) ==
    IF \E i \in DOMAIN images : images[i].id = imageId
    THEN CHOOSE i \in DOMAIN images :
            /\ images[i].id = imageId
            /\ \A j \in DOMAIN images : images[j].id = imageId => i <= j
    ELSE 0

Ids(images) == {images[i].id : i \in DOMAIN images}

\* every id a handler can be handed
AllIds == {NewId(b, i) : b \in 1..(MaxBatches + 1), i \in 1..Cardinality(CarFiles)}

OriginalUrls(images) == {images[i].originalUrl : i \in DOMAIN images}

\* the cleanup of the effect on [processedImages]: React runs it with the
\* collection of the previous render whenever setProcessedImages committed a new
\* array (prev.map always returns one), and it revokes every originalUrl of it
RevokeOnChange(prev) == revoked \cup OriginalUrls(prev)

----------------------------------------------------------------------------
(* The calls in flight *)

\* mutant: the options are not handed on, the service's default ({}) applies
GenTaskDefaultOptions(job, batch, bg, mode, opts) ==
    [id |-> job.id, batch |-> batch, kind |-> "gen", phase |-> "prep", slot |-> 1,
     card |-> FALSE, file |-> job.originalFile, background |-> bg, mode |-> mode,
     options |-> <<"none", FALSE, "none">>, image |-> NULL, correction |-> <<>>]

\* the closure of one async callback of handleProcessImages, suspended in
\* processCarImage(image.originalFile, backgroundImage, processingMode, options)
GenTask(job, batch, bg, mode, opts) ==
    [id |-> job.id, batch |-> batch, kind |-> "gen", phase |-> "prep", slot |-> 1,
     card |-> FALSE, file |-> job.originalFile, background |-> bg, mode |-> mode,
     options |-> opts, image |-> NULL, correction |-> <<>>]

\* the closure of handleCorrectImage(imageId, correction), suspended in
\* fetch(imageToCorrect.processedUrl) ... correctImage(imageFile, correction)
RefineTask(job, correction, slot, card) ==
    [id |-> job.id, batch |-> job.id[1], kind |-> "refine", phase |-> "prep",
     slot |-> slot, card |-> card, file |-> job.originalFile, background |-> NoFile,
     mode |-> "n/a", options |-> <<"none", FALSE, "none">>,
     image |-> job.processedUrl, correction |-> correction]

TasksOf(id) == {t \in tasks : t.id = id}

\* the first free place among the calls in flight for one id
FreeSlot(id) ==
    CHOOSE n \in 1..(Cardinality(TasksOf(id)) + 1) :
        /\ \A t \in TasksOf(id) : t.slot # n
        /\ \A m \in 1..(n - 1) : \E t \in TasksOf(id) : t.slot = m

----------------------------------------------------------------------------
(* Export: getOutputFilename and the archive *)

\* characters a file name is made of in the naming specification
NameChars == {"a", "b", "."}

\* longest file name explored there
MaxNameLen == 4

Names == UNION {[1..n -> NameChars] : n \in 1..MaxNameLen}

\* originalName.split('.'): cur collects the piece being read
RECURSIVE SplitOnDot(_, _)
SplitOnDot(s, cur) ==
    IF s = <<>> THEN <<cur>>
    ELSE IF Head(s) = "." THEN <<cur>> \o SplitOnDot(Tail(s), <<>>)
         ELSE SplitOnDot(Tail(s), Append(cur, Head(s)))

\* parts.join('.')
RECURSIVE JoinWithDot(_)
JoinWithDot(parts) ==
    IF Len(parts) = 0 THEN <<>>
    ELSE IF Len(parts) = 1 THEN parts[1]
         ELSE parts[1] \o <<".">> \o JoinWithDot(Tail(parts))

\* getOutputFilename(originalName): pop() takes the last piece as the extension,
\* an empty extension is falsy
getOutputFilename(name) ==
    LET parts == SplitOnDot(name, <<>>)
        extension == parts[Len(parts)]
        rest == JoinWithDot(SubSeq(parts, 1, Len(parts) - 1))
    IN  rest \o <<"-processed", ".">> \o (IF extension = <<>> THEN <<"png">> ELSE extension)

\* File.name of the files of the export specification: two of them, picked up
\* from different folders, bear the same name
ExportFiles == {"car1.jpg", "car2.png", "other/car1.jpg"}

FileName(file) ==
    CASE file = "car1.jpg" -> <<"car1", ".", "jpg">>
      [] file = "car2.png" -> <<"car2", ".", "png">>
      [] file = "other/car1.jpg" -> <<"car1", ".", "jpg">>

ExportSelections ==
    {<<"car1.jpg", "car2.png">>, <<"car1.jpg", "other/car1.jpg">>,
     <<"car1.jpg", "car2.png", "other/car1.jpg">>}

\* no archive has been handed to the browser yet
NoDownload == [made |-> FALSE, files |-> {}]

JSZipMissing == <<"Could not initiate download. JSZip library is missing.">>

ZipFailed == <<"Failed to generate zip file.">>

\* processedImages.filter(img => img.status === 'done' && img.processedUrl)
IsSuccessful(img) == img.status = "done" /\ img.processedUrl # NULL

SuccessfulImages(images) == SelectSeq(images, IsSuccessful)

\* processedImages.some(img => img.status === 'done')
hasSuccessfulProcessedImages == \E i \in DOMAIN processedImages : processedImages[i].status = "done"

\* fetch(dataUrl).blob(): the bytes and the media type the data URL carries
FetchBlob(url) == [type |-> SubSeq(url, 2, Len(url) - 2), data |-> url[Len(url)]]

\* zip.file(filename, blob): adds the entry, replacing one of the same name
ZipFile(files, filename, blob) ==
    {e \in files : e.name # filename} \cup {[name |-> filename, blob |-> blob]}

\* the for loop over successfulImages from image k on; a fetch that fails
\* (k \in failed) is caught and the image skipped
RECURSIVE AddImages(_, _, _, _)
AddImages(files, images, failed, k) ==
    IF k > Len(images) THEN files
    ELSE AddImages(IF k \in failed THEN files
                   ELSE ZipFile(files, getOutputFilename(FileName(images[k].originalFile)),
                                FetchBlob(images[k].processedUrl)),
                   images, failed, k + 1)

\* handleDownloadAll; nothing it awaits depends on what other handlers do
\* meanwhile (it works on the successfulImages of the render it was clicked in)
HandleDownloadAll(jszip, failed, generated) ==
    LET successfulImages == SuccessfulImages(processedImages)
    IN  /\ failed \subseteq DOMAIN successfulImages
        /\ IF ~jszip
           THEN globalError' = JSZipMissing /\ UNCHANGED <<zip>>
           ELSE IF Len(successfulImages) = 0
           THEN UNCHANGED <<globalError, zip>>
           ELSE IF generated
           THEN /\ zip' = [made |-> TRUE,
                           files |-> AddImages({}, successfulImages, failed, 1)]
                /\ UNCHANGED globalError
           ELSE globalError' = ZipFailed /\ UNCHANGED <<zip>>
        /\ UNCHANGED <<config, processedImages, isProcessing, isCorrecting, tasks,
                       batches, revoked, originalName, outputFilename, service>>

\* the prompt of correctImage around the user's instruction
RefinePrompt(correction) ==
    <<"Based on the user's feedback, please refine the provided image. The user's instruction is: \"">>
        \o correction \o <<"\". Your task is to apply this change subtly and realistically, ...">>

\* the parts correctImage sends for call t: the prompt, then the image that
\* handleCorrectImage fetched from the result URL it read, wrapped in a File and
\* encoded again by fileToBase64
RefineRequest(t) ==
    LET blob == FetchBlob(t.image)
    IN  <<TextPart(RefinePrompt(t.correction)), InlinePart(blob.type, blob.data)>>

\* a click on Download All, disabled={!hasSuccessfulProcessedImages || isProcessing}
ClickDownloadAll(jszip, failed, generated) ==
    /\ hasSuccessfulProcessedImages
    /\ ~isProcessing
    /\ HandleDownloadAll(jszip, failed, generated)

----------------------------------------------------------------------------
(* Initial state: the useState defaults *)

Init ==
    /\ carImages = <<>>
    /\ backgroundImage = NoFile
    /\ processedImages = <<>>
    /\ isProcessing = FALSE
    /\ globalError = NULL
    /\ processingMode = "full"
    /\ floorEffect = "none"
    /\ matchReflections = FALSE
    /\ turntableTint = "none"
    /\ isCorrecting = {}
    /\ tasks = {}
    /\ batches = 0
    /\ revoked = {}
    /\ zip = NoDownload
    /\ originalName = <<>>
    /\ outputFilename = <<>>
    /\ promptMode = "full"
    /\ promptOptions = <<"none", FALSE, "none">>
    /\ prompt = <<>>

----------------------------------------------------------------------------
(* Selection of the inputs *)

\* handleCarImagesSelected(files), from an uploader or the full-screen dropzone
\* (neither is disabled while a batch is processing)
HandleCarImagesSelected(files) ==
    /\ carImages' = files
    /\ UNCHANGED <<backgroundImage, processedImages, isProcessing, globalError,
                   processingMode, options, isCorrecting, tasks, batches, revoked, download, service>>

\* prev.filter(file => file !== fileToRemove)
WithoutFile(prev, fileToRemove) ==
    LET keep == {i \in DOMAIN prev : prev[i] # fileToRemove}
        pos(k) == CHOOSE i \in keep : Cardinality({j \in keep : j <= i}) = k
    IN  [k \in 1..Cardinality(keep) |-> prev[pos(k)]]

\* handleRemoveCarImage(fileToRemove): the preview's button, disabled={isProcessing}
HandleRemoveCarImage(fileToRemove) ==
    /\ ~isProcessing
    /\ \E i \in DOMAIN carImages : carImages[i] = fileToRemove
    /\ carImages' = WithoutFile(carImages, fileToRemove)
    /\ UNCHANGED <<backgroundImage, processedImages, isProcessing, globalError,
                   processingMode, options, isCorrecting, tasks, batches, revoked, download, service>>

\* "Clear all": setCarImages([]), rendered with the previews, disabled={isProcessing}
ClearCarImages ==
    /\ ~isProcessing
    /\ Len(carImages) > 0
    /\ carImages' = <<>>
    /\ UNCHANGED <<backgroundImage, processedImages, isProcessing, globalError,
                   processingMode, options, isCorrecting, tasks, batches, revoked, download, service>>

\* handleBackgroundImageSelected(files): if (files.length > 0) setBackgroundImage(files[0])
HandleBackgroundImageSelected(files) ==
    /\ Len(files) > 0
    /\ backgroundImage' = files[1]
    /\ UNCHANGED <<carImages, processedImages, isProcessing, globalError,
                   processingMode, options, isCorrecting, tasks, batches, revoked, download, service>>

\* handleRemoveBackgroundImage: the button is rendered with the background preview
\* (not in tint-turntable-only), disabled={isProcessing}
HandleRemoveBackgroundImage ==
    /\ ~isProcessing
    /\ backgroundImage # NoFile
    /\ processingMode # "tint-turntable-only"
    /\ backgroundImage' = NoFile
    /\ UNCHANGED <<carImages, processedImages, isProcessing, globalError,
                   processingMode, options, isCorrecting, tasks, batches, revoked, download, service>>

----------------------------------------------------------------------------
(* Mode and options *)

\* the effect on [processingMode]: options of the other modes fall back
ResetFloorEffect(mode, current) == IF mode # "partial-wall" THEN "none" ELSE current

ResetMatchReflections(mode, current) == IF mode # "partial-wall" THEN FALSE ELSE current

ResetTurntableTint(mode, current) ==
    IF mode # "turntable-tint" /\ mode # "tint-turntable-only" THEN "none" ELSE current

\* a mode radio's onChange (disabled={isProcessing}), then the reset effect,
\* which runs before the next event is handled
SetProcessingMode(mode) ==
    /\ ~isProcessing
    /\ mode # processingMode
    /\ processingMode' = mode
    /\ floorEffect' = ResetFloorEffect(mode, floorEffect)
    /\ matchReflections' = ResetMatchReflections(mode, matchReflections)
    /\ turntableTint' = ResetTurntableTint(mode, turntableTint)
    /\ UNCHANGED <<carImages, backgroundImage, processedImages, isProcessing,
                   globalError, isCorrecting, tasks, batches, revoked, download, service>>

\* a floor-effect radio, rendered in partial-wall, disabled={isProcessing}
SetFloorEffect(effect) ==
    /\ ~isProcessing
    /\ processingMode = "partial-wall"
    /\ effect # floorEffect
    /\ floorEffect' = effect
    /\ UNCHANGED <<carImages, backgroundImage, processedImages, isProcessing,
                   globalError, processingMode, matchReflections, turntableTint,
                   isCorrecting, tasks, batches, revoked, download, service>>

\* the reflections checkbox, rendered in partial-wall, disabled={isProcessing}
SetMatchReflections ==
    /\ ~isProcessing
    /\ processingMode = "partial-wall"
    /\ matchReflections' = ~matchReflections
    /\ UNCHANGED <<carImages, backgroundImage, processedImages, isProcessing,
                   globalError, processingMode, floorEffect, turntableTint,
                   isCorrecting, tasks, batches, revoked, download, service>>

\* disabled of a tint radio: in tint-turntable-only the 'none' radio is disabled too
TintRadioDisabled(mode, tint) ==
    isProcessing \/ (mode = "tint-turntable-only" /\ tint = "none")

\* a turntable-tint radio, rendered in the two turntable modes
SetTurntableTint(tint) ==
    /\ processingMode \in {"turntable-tint", "tint-turntable-only"}
    /\ ~TintRadioDisabled(processingMode, tint)
    /\ tint # turntableTint
    /\ turntableTint' = tint
    /\ UNCHANGED <<carImages, backgroundImage, processedImages, isProcessing,
                   globalError, processingMode, floorEffect, matchReflections,
                   isCorrecting, tasks, batches, revoked, download, service>>

----------------------------------------------------------------------------
(* Batch submission: handleProcessImages *)

MissingInputMessage == <<"Please upload at least one car image and a background image.">>

\* mutant: the validation forgets the background
SubmissionRejectedNoBackground(files, bg, mode) == Len(files) = 0

\* the validation at the top of handleProcessImages
SubmissionRejected(files, bg, mode) ==
    Len(files) = 0 \/ (mode # "tint-turntable-only" /\ bg = NoFile)

\* mutant: the Generate button does not look at the in-progress flag
canProcessWhileProcessing ==
    IF Len(carImages) = 0 THEN FALSE
    ELSE IF processingMode = "tint-turntable-only" THEN TRUE
    ELSE backgroundImage # NoFile

\* canProcess: what enables the Generate button
canProcess ==
    IF isProcessing \/ Len(carImages) = 0 THEN FALSE
    ELSE IF processingMode = "tint-turntable-only" THEN TRUE
    ELSE backgroundImage # NoFile

\* handleProcessImages up to `await Promise.all(processingPromises)`: either the
\* validation returns, or the Jobs are created and every async callback runs to
\* its first await (inside processCarImage), all in one run
HandleProcessImages ==
    IF SubmissionRejected(carImages, backgroundImage, processingMode)
    THEN /\ globalError' = MissingInputMessage
         /\ UNCHANGED <<config, processedImages, isProcessing, isCorrecting, tasks, batches, revoked, download, service>>
    ELSE LET batch == batches + 1
             initialProcessedImages == InitialProcessedImages(carImages, batch)
         IN  /\ batches < MaxBatches
             /\ batches' = batch
             /\ isProcessing' = TRUE
             /\ globalError' = NULL
             /\ processedImages' =
                    StartAll(initialProcessedImages, initialProcessedImages,
                             Len(initialProcessedImages))
             /\ tasks' = tasks \cup
                    {GenTask(initialProcessedImages[i], batch, backgroundImage,
                             processingMode, options) : i \in DOMAIN initialProcessedImages}
             \* the ImageCards are keyed by id: the former ones unmount
             /\ isCorrecting' = {}
             /\ revoked' = RevokeOnChange(processedImages)
             /\ UNCHANGED <<config, download, service>>

\* a click on Generate, disabled={!canProcess}
ClickGenerate ==
    /\ canProcess
    /\ HandleProcessImages

----------------------------------------------------------------------------
(* Refinement: ImageCard.handleCorrectSubmit and handleCorrectImage *)

RefineInternalError == <<"An internal error occurred while trying to refine the image.">>

\* s.trim(), on the characters of the input
RECURSIVE TrimStart(_)
TrimStart(s) == IF Len(s) > 0 /\ Head(s) = " " THEN TrimStart(Tail(s)) ELSE s

RECURSIVE TrimEnd(_)
TrimEnd(s) ==
    IF Len(s) > 0 /\ s[Len(s)] = " " THEN TrimEnd(SubSeq(s, 1, Len(s) - 1)) ELSE s

Trim(s) == TrimEnd(TrimStart(s))

\* the guard of handleCorrectImage: !imageToCorrect || !imageToCorrect.processedUrl
CorrectionRefused(images, imageId) ==
    \/ FindJob(images, imageId) = 0
    \/ images[FindJob(images, imageId)].processedUrl = NULL

\* handleCorrectImage(imageId, correction) up to its first await (the fetch)
CorrectImage(imageId, correction, card) ==
    IF CorrectionRefused(processedImages, imageId)
    THEN /\ globalError' = RefineInternalError
         /\ UNCHANGED <<processedImages, tasks, revoked>>
    ELSE LET imageToCorrect == processedImages[FindJob(processedImages, imageId)]
         IN  /\ processedImages' = MarkCorrecting(processedImages, imageId)
             /\ tasks' = tasks \cup
                    {RefineTask(imageToCorrect, correction, FreeSlot(imageId), card)}
             /\ revoked' = RevokeOnChange(processedImages)
             /\ UNCHANGED globalError

\* mutant: the card shows the Refine form whenever there is a result
CardOffersRefineAnyStatus(p) == p.processedUrl # NULL

\* the card shows the Refine form: image.status === 'done' && image.processedUrl
CardOffersRefine(p) == p.status = "done" /\ p.processedUrl # NULL

\* the form's Submit button: disabled={!correctionPrompt.trim() || isCorrecting}
SubmitDisabled(p, correctionPrompt) ==
    Trim(correctionPrompt) = <<>> \/ p.id \in isCorrecting

\* a click on Submit in the card of Job i: handleCorrectSubmit up to
\* `await onCorrect(image.id, correctionPrompt)`
ClickRefineSubmit(i, correctionPrompt) ==
    /\ i \in DOMAIN processedImages
    /\ CardOffersRefine(processedImages[i])
    /\ ~SubmitDisabled(processedImages[i], correctionPrompt)
    /\ CorrectImage(processedImages[i].id, correctionPrompt, TRUE)
    \* setIsCorrecting(true); the finally clause clears it when onCorrect returned at once
    /\ isCorrecting' = IF CorrectionRefused(processedImages, processedImages[i].id)
                       THEN isCorrecting
                       ELSE isCorrecting \cup {processedImages[i].id}
    /\ UNCHANGED <<config, isProcessing, batches, download, service>>

----------------------------------------------------------------------------
(* Continuations of the calls in flight *)

BackgroundRequired == <<"A background image is required for this processing mode.">>

\* a FileReader error rejects with its event, which is no Error
ReaderFailure == Thrown(FALSE, NULL)

\* mutant: the catch block rethrows, Promise.all rejects and the flag stays set
ResumeRethrows(t, outcome) ==
    /\ processedImages' =
          IF outcome.ok
          THEN MarkDone(processedImages, t.id, outcome.url)
          ELSE MarkError(processedImages, t.id, ErrorMessageOf(outcome.thrown))
    /\ revoked' = RevokeOnChange(processedImages)
    /\ tasks' = tasks \ {t}
    /\ isProcessing' =
          IF /\ t.kind = "gen"
             /\ ~\E u \in tasks \ {t} : u.kind = "gen" /\ u.batch = t.batch
             /\ outcome.ok
          THEN FALSE ELSE isProcessing
    /\ isCorrecting' = IF t.card THEN isCorrecting \ {t.id} ELSE isCorrecting
    /\ UNCHANGED <<config, globalError, batches, download, service>>

\* mutant: a call that failed is started once more before the Job is given up
ResumeWithRetry(t, outcome) ==
    IF ~outcome.ok /\ t.slot = 1
    THEN /\ tasks' = (tasks \ {t}) \cup {[t EXCEPT !.phase = "prep", !.slot = 2]}
         /\ UNCHANGED <<config, processedImages, isProcessing, globalError,
                        isCorrecting, batches, revoked, download, service>>
    ELSE /\ processedImages' =
               IF outcome.ok
               THEN MarkDone(processedImages, t.id, outcome.url)
               ELSE MarkError(processedImages, t.id, ErrorMessageOf(outcome.thrown))
         /\ revoked' = RevokeOnChange(processedImages)
         /\ tasks' = tasks \ {t}
         /\ isProcessing' =
               IF t.kind = "gen" /\ ~\E u \in tasks \ {t} : u.kind = "gen" /\ u.batch = t.batch
               THEN FALSE ELSE isProcessing
         /\ isCorrecting' = IF t.card THEN isCorrecting \ {t.id} ELSE isCorrecting
         /\ UNCHANGED <<config, globalError, batches, download, service>>

\* the catch / success continuation of the callback that owns task t, with the
\* value its awaited call settled with; for a generation call, Promise.all
\* resolves with the last callback of the batch and clears the flag; for a
\* refinement started from a card, handleCorrectSubmit's finally runs
Resume(t, outcome) ==
    /\ processedImages' =
          IF outcome.ok
          THEN MarkDone(processedImages, t.id, outcome.url)
          ELSE MarkError(processedImages, t.id, ErrorMessageOf(outcome.thrown))
    /\ revoked' = RevokeOnChange(processedImages)
    /\ tasks' = tasks \ {t}
    /\ isProcessing' =
          IF t.kind = "gen" /\ ~\E u \in tasks \ {t} : u.kind = "gen" /\ u.batch = t.batch
          THEN FALSE ELSE isProcessing
    /\ isCorrecting' = IF t.card THEN isCorrecting \ {t.id} ELSE isCorrecting
    /\ UNCHANGED <<config, globalError, batches, download, service>>

\* the inputs are encoded (fileToBase64; for a refinement the fetch of the result
\* first): the backend call is issued, unless processCarImage finds the background
\* missing and throws before any call
InputsEncoded(t) ==
    /\ t \in tasks
    /\ t.phase = "prep"
    /\ IF t.kind = "gen" /\ t.mode # "tint-turntable-only" /\ t.background = NoFile
       THEN Resume(t, [ok |-> FALSE, url |-> NULL, thrown |-> Thrown(TRUE, BackgroundRequired)])
       ELSE /\ tasks' = (tasks \ {t}) \cup {[t EXCEPT !.phase = "call"]}
            /\ UNCHANGED <<config, processedImages, isProcessing, globalError,
                           isCorrecting, batches, revoked, download, service>>

\* reading a file fails: the rejection lands in the callback's catch
EncodingFailed(t) ==
    /\ t \in tasks
    /\ t.phase = "prep"
    /\ Resume(t, [ok |-> FALSE, url |-> NULL, thrown |-> ReaderFailure])

\* generateContent settles: processCarImage / correctImage returns or throws
BackendAnswered(t, reply) ==
    /\ t \in tasks
    /\ t.phase = "call"
    /\ Resume(t, Settle(reply))

----------------------------------------------------------------------------
(* The program driven through its user interface *)

\* the user selects or removes input files
SelectionStep ==
    \/ \E files \in Selections : HandleCarImagesSelected(files)
    \/ \E f \in CarFiles : HandleRemoveCarImage(f)
    \/ ClearCarImages
    \/ \E f \in BackgroundFiles : HandleBackgroundImageSelected(<<f>>)
    \/ HandleRemoveBackgroundImage

\* the user picks a mode or an option of the mode
OptionStep ==
    \/ \E mode \in ProcessingMode : SetProcessingMode(mode)
    \/ \E effect \in FloorEffect : SetFloorEffect(effect)
    \/ SetMatchReflections
    \/ \E tint \in TurntableTint : SetTurntableTint(tint)

\* an awaited promise settles and its callback resumes
TaskStep ==
    \/ \E t \in tasks : InputsEncoded(t)
    \/ \E t \in tasks : EncodingFailed(t)
    \/ \E t \in tasks, reply \in Replies : BackendAnswered(t, reply)

Next ==
    \/ SelectionStep
    \/ OptionStep
    \/ ClickGenerate
    \/ \E i \in 1..Cardinality(CarFiles), c \in Prompts : ClickRefineSubmit(i, c)
    \/ TaskStep

Spec == Init /\ [][Next]_vars

----------------------------------------------------------------------------
(* The two handlers called directly, past the buttons' disabled guards: what *)
(* handleProcessImages and handleCorrectImage do for any caller. The caller  *)
(* starts no second batch under a running one, and leaves the options of the *)
(* mode alone (no handler reads them but to pass them on).                   *)

\* handleProcessImages() with whatever is selected
CallHandleProcessImages ==
    /\ isProcessing => SubmissionRejected(carImages, backgroundImage, processingMode)
    /\ HandleProcessImages

\* handleCorrectImage(imageId, correction) with any id
CallHandleCorrectImage(imageId, correction) ==
    /\ Cardinality(TasksOf(imageId)) < MaxInFlight
    /\ CorrectImage(imageId, correction, FALSE)
    /\ UNCHANGED <<config, isProcessing, isCorrecting, batches, download, service>>

NextApi ==
    \/ SelectionStep
    \/ \E mode \in ProcessingMode : SetProcessingMode(mode)
    \/ CallHandleProcessImages
    \/ \E id \in AllIds : CallHandleCorrectImage(id, <<" ", "s">>)
    \/ TaskStep

SpecApi == Init /\ [][NextApi]_vars

----------------------------------------------------------------------------
(* The pipeline of one selection against a backend that answers with every   *)
(* shape of response the client reads: images after text, in a later         *)
(* candidate, after inline data that is no image, text alone, nothing.       *)

PDF == <<"application", "/", "pdf">>

Note == TextPart(<<"note">>)

RichResponses ==
    { << <<InlinePart(PNG, "A")>> >>,
      << <<Note, InlinePart(PNG, "B")>> >>,
      << <<Note>>, <<InlinePart(PDF, "X"), InlinePart(PNG, "B"), InlinePart(PNG, "A")>> >>,
      << <<TextPart(<<"refused">>)>> >>,
      << <<TextPart(<<>>)>> >>,
      << <<>>, <<Note>> >>,
      << <<InlinePart(PDF, "X")>> >>,
      << >> }

RichReplies ==
    {[rejected |-> FALSE, candidates |-> r, thrown |-> NothingThrown] : r \in RichResponses}
      \cup {[rejected |-> TRUE, candidates |-> <<>>, thrown |-> TransportError]}

TaskStepRich ==
    \/ \E t \in tasks : InputsEncoded(t)
    \/ \E t \in tasks, reply \in RichReplies : BackendAnswered(t, reply)

NextRich ==
    \/ \E files \in Selections : HandleCarImagesSelected(files)
    \/ \E f \in BackgroundFiles : HandleBackgroundImageSelected(<<f>>)
    \/ ClickGenerate
    \/ \E i \in 1..Cardinality(CarFiles) : ClickRefineSubmit(i, <<" ", "s">>)
    \/ TaskStepRich

SpecRich == Init /\ [][NextRich]_vars

----------------------------------------------------------------------------
(* Batches and their export *)

\* the backend's answers told apart by their image (A or B)
ExportReplies ==
    Replies \cup {[rejected |-> FALSE, candidates |-> << <<InlinePart(PNG, "B")>> >>,
                   thrown |-> NothingThrown]}

TaskStepExport ==
    \/ \E t \in tasks : InputsEncoded(t)
    \/ \E t \in tasks, reply \in ExportReplies : BackendAnswered(t, reply)

NextExport ==
    \/ \E files \in ExportSelections : HandleCarImagesSelected(files)
    \/ \E f \in BackgroundFiles : HandleBackgroundImageSelected(<<f>>)
    \/ ClickGenerate
    \/ TaskStepExport
    \/ \E jszip, generated \in BOOLEAN, failed \in SUBSET (1..Cardinality(ExportFiles)) :
          ClickDownloadAll(jszip, failed, generated)

SpecExport == Init /\ [][NextExport]_vars

----------------------------------------------------------------------------
(* A session with every button: submit, refine, export *)

NextSession ==
    \/ \E files \in Selections : HandleCarImagesSelected(files)
    \/ \E f \in BackgroundFiles : HandleBackgroundImageSelected(<<f>>)
    \/ ClickGenerate
    \/ \E i \in 1..Cardinality(CarFiles) : ClickRefineSubmit(i, <<" ", "s">>)
    \/ TaskStepExport
    \/ \E jszip, generated \in BOOLEAN, failed \in SUBSET (1..Cardinality(CarFiles)) :
          ClickDownloadAll(jszip, failed, generated)

SpecSession == Init /\ [][NextSession]_vars

----------------------------------------------------------------------------
(* The ways files enter: the two ImageUploaders (picker or drop on them) and *)
(* the two drop areas of the FullScreenDropzone                              *)

MAX_FILES == 50

MAX_SIZE_MB == 10

MAX_SIZE_BYTES == MAX_SIZE_MB * 1024 * 1024

JPEG == <<"image", "/", "jpeg">>

WEBP == <<"image", "/", "webp">>

\* the default of the accept prop, which neither uploader of App overrides
accept ==
    JPEG \o <<",", " ">> \o PNG \o <<",", " ">> \o WEBP

\* String.prototype.includes: sub occurs in s as a run of consecutive pieces
\* (the empty string occurs in every string)
includes(s, sub) ==
    \E i \in 0..(Len(s) - Len(sub)) : SubSeq(s, i + 1, i + Len(sub)) = sub

\* the longest list of files offered at once
MaxOffered == 51

\* one of many small jpeg files
BulkFile(i) == "car" \o ToString(i) \o ".jpg"

\* file.type as the browser reports it: '' when it does not know the type
FileType(file) ==
    CASE file = "car2.png" -> PNG
      [] file = "big.png" -> PNG
      [] file = "exact.webp" -> WEBP
      [] file = "doc.pdf" -> <<"application", "/", "pdf">>
      [] file = "raw" -> <<>>
      [] OTHER -> JPEG

\* file.size in bytes
FileSize(file) ==
    CASE file = "big.png" -> MAX_SIZE_BYTES + 1
      [] file = "exact.webp" -> MAX_SIZE_BYTES
      [] OTHER -> 2048

\* the FileLists a picker or a drop may carry
OfferedLists ==
    { <<"car1.jpg", "car2.png">>,
      <<"doc.pdf", "car1.jpg", "big.png", "raw", "exact.webp">>,
      <<"big.png">>,
      [i \in 1..MaxOffered |-> BulkFile(i)] }

\* handleFiles up to the call of onFilesSelected: the list it would hand over
HandleFiles(files, multiple) ==
    LET HasAcceptedType(file) == includes(accept, FileType(file))
        FitsSize(file) == FileSize(file) <= MAX_SIZE_BYTES
        fileArray == SelectSeq(SelectSeq(files, HasAcceptedType), FitsSize)
    IN  IF ~multiple
        THEN SubSeq(fileArray, 1, IF Len(fileArray) < 1 THEN Len(fileArray) ELSE 1)
        ELSE SubSeq(fileArray, 1,
                    IF Len(fileArray) < MAX_FILES THEN Len(fileArray) ELSE MAX_FILES)

\* handleChange / handleDrop of the car ImageUploader (multiple)
UploadCarImages(files) ==
    /\ Len(files) > 0
    /\ Len(HandleFiles(files, TRUE)) > 0
    /\ HandleCarImagesSelected(HandleFiles(files, TRUE))

\* handleChange / handleDrop of the background ImageUploader
UploadBackgroundImage(files) ==
    /\ Len(files) > 0
    /\ Len(HandleFiles(files, FALSE)) > 0
    /\ HandleBackgroundImageSelected(HandleFiles(files, FALSE))

\* FullScreenDropzone.handleCarDrop with onCarImagesDropped={handleCarImagesSelected}
HandleCarDrop(files) ==
    /\ Len(files) > 0
    /\ HandleCarImagesSelected(files)

\* FullScreenDropzone.handleBackgroundDrop with
\* onBackgroundImageDropped={handleBackgroundImageSelected}
HandleBackgroundDrop(files) ==
    /\ Len(files) > 0
    /\ HandleBackgroundImageSelected(files)

NextSelect ==
    \/ \E files \in OfferedLists : UploadCarImages(files)
    \/ \E files \in OfferedLists : UploadBackgroundImage(files)
    \/ \E files \in OfferedLists : HandleCarDrop(files)
    \/ \E files \in OfferedLists : HandleBackgroundDrop(files)
    \/ Len(carImages) > 0 /\ HandleRemoveCarImage(carImages[1])
    \/ ClearCarImages
    \/ HandleRemoveBackgroundImage

SpecSelect == Init /\ [][NextSelect]_vars

----------------------------------------------------------------------------
(* getOutputFilename on its own: any name, then its export name *)

InitFilename ==
    /\ originalName \in Names
    /\ outputFilename = <<>>
    /\ carImages = <<>>
    /\ backgroundImage = NoFile
    /\ processedImages = <<>>
    /\ isProcessing = FALSE
    /\ globalError = NULL
    /\ processingMode = "full"
    /\ floorEffect = "none"
    /\ matchReflections = FALSE
    /\ turntableTint = "none"
    /\ isCorrecting = {}
    /\ tasks = {}
    /\ batches = 0
    /\ revoked = {}
    /\ zip = NoDownload
    /\ promptMode = "full"
    /\ promptOptions = <<"none", FALSE, "none">>
    /\ prompt = <<>>

NameFile ==
    /\ outputFilename = <<>>
    /\ outputFilename' = getOutputFilename(originalName)
    /\ UNCHANGED <<config, processedImages, isProcessing, globalError, isCorrecting,
                   tasks, batches, revoked, zip, originalName, service>>

NextFilename == NameFile

SpecFilename == InitFilename /\ [][NextFilename]_vars

----------------------------------------------------------------------------
(* The prompt of processCarImage on its own: any mode and options (the      *)
(* service does not depend on the resets App applies to the options), then  *)
(* the prompt it builds. A prompt is the list of its clauses in order; a    *)
(* clause has the number written in front of it, 0 when none is written.    *)

Clause(n, words) == [number |-> n, text |-> words]

\* the last clause of the prompts that combine two images
Closing ==
    Clause(0, <<"The final output must be a single, high-resolution composite image, ... Do not include any text, borders, or annotations.">>)

\* mode 'full': the introduction, steps 1-4 and its own last clause
FullPrompt ==
    << Clause(0, <<"Analyze the two images provided. The first image contains a car. The second image is a new background. ...">>),
       Clause(1, <<"Accurately isolate the car from its original background in the first image.">>),
       Clause(2, <<"Place the isolated car onto the new background provided in the second image.">>),
       Clause(3, <<"Generate a natural and realistic shadow for the car on the new background, ...">>),
       Clause(4, <<"Blend the car seamlessly into the new environment to create a photorealistic composite image.">>),
       Clause(0, <<"The final output must be a single, high-resolution composite image, ... Do not include any text in the output.">>) >>

\* mode 'partial-wall': the introduction and the fixed steps 1-5
PartialWallSteps ==
    << Clause(0, <<"Analyze the two images provided. The first image contains a car in its original setting (e.g., a studio). ...">>),
       Clause(1, <<"In the first image, identify the car and the horizontal line that separates the floor from the wall/background.">>),
       Clause(2, <<"Keep the original floor from the first image. ...">>),
       Clause(3, <<"Replace the original background area above the floor (the wall) with the new background from the second image. ...">>),
       Clause(4, <<"Create a seamless, natural-looking transition between the retained floor and the new upper background.">>),
       Clause(5, <<"The car should remain in its original position on its original floor, but now set against the new background. ...">>) >>

FloorDesaturate ==
    <<"CRITICAL INSTRUCTION: You MUST convert the retained floor area to be completely black and white (fully desaturated). ...">>

FloorTint(color) ==
    <<"CRITICAL INSTRUCTION: Apply a transparent ", color, " color overlay with exactly 15% opacity ONLY to the retained floor area. ...">>

FloorClauses == {FloorDesaturate, FloorTint("red"), FloorTint("yellow")}

Reflections ==
    <<"CRITICAL INSTRUCTION: Analyze the new background from the second image and realistically render its reflections onto the car's body, ...">>

\* mode 'turntable-tint': the introduction and the fixed steps 1-5
TurntableSteps ==
    << Clause(0, <<"Analyze the two images provided. The first image contains a car on a circular rotating platform/turntable. ...">>),
       Clause(1, <<"Precisely identify and isolate the car and the complete circular turntable it rests on from the original background.">>),
       Clause(2, <<"Preserve the car and the turntable perfectly.">>),
       Clause(3, <<"Replace the entire original background, including the floor surrounding the turntable and the walls, ...">>),
       Clause(4, <<"Generate a natural, realistic shadow for the car on the turntable's surface, ...">>),
       Clause(5, <<"Create a photorealistic composite image.">>) >>

TurntableTintClause(color) ==
    <<"CRITICAL INSTRUCTION: Apply a transparent ", color, " color overlay with exactly 15% opacity ONLY to the top surface of the turntable. ...">>

\* the prompt under construction and let instructionCounter = 6
Numbering(steps) == [prompt |-> steps, instructionCounter |-> 6]

\* mutant: the counter is not advanced after a clause
AddClauseNoIncrement(b, words) ==
    [prompt |-> b.prompt \o <<Clause(b.instructionCounter, words)>>,
     instructionCounter |-> b.instructionCounter]

\* prompt += `\n${instructionCounter}. ...`; instructionCounter++
AddClause(b, words) ==
    [prompt |-> b.prompt \o <<Clause(b.instructionCounter, words)>>,
     instructionCounter |-> b.instructionCounter + 1]

\* mode 'partial-wall': opts is <<floorEffect, matchReflections, turntableTint>>
PartialWallPrompt(opts) ==
    LET b0 == Numbering(PartialWallSteps)
        b1 == IF opts[1] = "desaturate" THEN AddClause(b0, FloorDesaturate)
              ELSE IF opts[1] = "red" THEN AddClause(b0, FloorTint("red"))
              ELSE IF opts[1] = "yellow" THEN AddClause(b0, FloorTint("yellow"))
              ELSE b0
        b2 == IF opts[2] THEN AddClause(b1, Reflections) ELSE b1
    IN  b2.prompt \o <<Closing>>

\* mutant: the reflections clause is also written in mode 'turntable-tint'
TurntableTintPromptWithReflections(opts) ==
    LET b0 == Numbering(TurntableSteps)
        b1 == IF opts[3] = "red" THEN AddClause(b0, TurntableTintClause("red"))
              ELSE IF opts[3] = "yellow" THEN AddClause(b0, TurntableTintClause("yellow"))
              ELSE b0
        b2 == IF opts[2] THEN AddClause(b1, Reflections) ELSE b1
    IN  b2.prompt \o <<Closing>>

\* mode 'turntable-tint'
TurntableTintPrompt(opts) ==
    LET b0 == Numbering(TurntableSteps)
        b1 == IF opts[3] = "red" THEN AddClause(b0, TurntableTintClause("red"))
              ELSE IF opts[3] = "yellow" THEN AddClause(b0, TurntableTintClause("yellow"))
              ELSE b0
    IN  b1.prompt \o <<Closing>>

\* mode 'tint-turntable-only': step 2 is written with ${options.turntableTint}
TintOnlyPrompt(opts) ==
    << Clause(0, <<"Your task is to perform a highly specific and subtle edit on the provided image of a car on a turntable. ...">>),
       Clause(1, <<"Identify the circular rotating platform/turntable beneath the car.">>),
       Clause(2, <<"Apply a transparent ", opts[3], " color overlay with exactly 15% opacity ONLY to the top surface of the turntable. ...">>),
       Clause(3, <<"CRITICAL: You must NOT change anything else in the image. ...">>),
       Clause(0, <<"The final output must be a single, high-resolution image that is identical to the input except for the subtle color tint on the turntable. ...">>) >>

\* the prompt processCarImage sends, given a background where one is required
BuildPrompt(mode, opts) ==
    IF mode = "tint-turntable-only" THEN TintOnlyPrompt(opts)
    ELSE IF mode = "full" THEN FullPrompt
    ELSE IF mode = "partial-wall" THEN PartialWallPrompt(opts)
    ELSE IF mode = "turntable-tint" THEN TurntableTintPrompt(opts)
    ELSE <<>>

\* every ProcessingOptions value
AllOptions == FloorEffect \X BOOLEAN \X TurntableTint

InitPrompt ==
    /\ promptMode \in ProcessingMode
    /\ promptOptions \in AllOptions
    /\ prompt = <<>>
    /\ carImages = <<>>
    /\ backgroundImage = NoFile
    /\ processedImages = <<>>
    /\ isProcessing = FALSE
    /\ globalError = NULL
    /\ processingMode = "full"
    /\ floorEffect = "none"
    /\ matchReflections = FALSE
    /\ turntableTint = "none"
    /\ isCorrecting = {}
    /\ tasks = {}
    /\ batches = 0
    /\ revoked = {}
    /\ zip = NoDownload
    /\ originalName = <<>>
    /\ outputFilename = <<>>

WritePrompt ==
    /\ prompt = <<>>
    /\ prompt' = BuildPrompt(promptMode, promptOptions)
    /\ UNCHANGED <<config, processedImages, isProcessing, globalError, isCorrecting,
                   tasks, batches, revoked, download, promptMode, promptOptions>>

NextPrompt == WritePrompt

SpecPrompt == InitPrompt /\ [][NextPrompt]_vars

----------------------------------------------------------------------------
(* The pipeline when every awaited promise settles: each call in flight is   *)
(* eventually resumed (file reads end, the backend resolves or rejects).     *)

\* the ids of the Jobs of the batches explored
BatchIds == {NewId(b, i) : b \in 1..MaxBatches, i \in 1..Cardinality(CarFiles)}

\* the pending promise of a call of this Job settles and its callback resumes
Settles(id) ==
    \E t \in tasks :
        /\ t.id = id
        /\ \/ InputsEncoded(t)
           \/ EncodingFailed(t)
           \/ \E reply \in Replies : BackendAnswered(t, reply)

NextLive ==
    \/ \E files \in Selections : HandleCarImagesSelected(files)
    \/ \E f \in BackgroundFiles : HandleBackgroundImageSelected(<<f>>)
    \/ ClickGenerate
    \/ \E i \in 1..Cardinality(CarFiles) : ClickRefineSubmit(i, <<" ", "s">>)
    \/ \E id \in BatchIds : Settles(id)

SpecLive ==
    /\ Init
    /\ [][NextLive]_vars
    /\ \A id \in BatchIds : WF_vars(Settles(id))

----------------------------------------------------------------------------
(* Claims *)

Jobs == {processedImages[i] : i \in DOMAIN processedImages}

\* the record of the Job with this id after the step (ids are looked up, not positions)
JobAfter(id) == processedImages'[FindJob(processedImages', id)]

\* C1: in every reachable state, for every Job of the collection, the result
\* (processedUrl) is non-null if and only if the status is 'done' -- also while
\* a refinement of a done Job is in flight and after a refinement has failed.
C1_ResultIffDone ==
    \A p \in Jobs : (p.processedUrl # NULL) <=> (p.status = "done")

\* C2: in every reachable state, for every Job of the collection, the error
\* message is present if and only if the status is 'error' (initial generation,
\* refinement start, refinement success, refinement failure).
C2_ErrorIffStatusError ==
    \A p \in Jobs : (p.error # NULL) <=> (p.status = "error")

\* C2 witness: a refinement has failed (the Job keeps its earlier result and
\* carries a message) beside a Job whose refinement succeeded or is yet to come
C2_Witness ==
    /\ \E p \in Jobs : p.status = "error" /\ p.error # NULL /\ p.processedUrl # NULL
    /\ \E p \in Jobs : p.status = "done" /\ p.error = NULL

\* the status changes of the Job state machine
AllowedTransitions ==
    { <<"pending", "processing">>, <<"processing", "done">>,
      <<"processing", "error">>, <<"done", "processing">> }

\* C3: for every Job, the only status changes that ever occur are
\* pending->processing, processing->done, processing->error and done->processing;
\* in particular a Job in 'error' never changes status again while it stays in
\* the collection.
C3_JobStateMachine ==
    [][\A p \in Jobs :
          p.id \in Ids(processedImages') =>
              \/ JobAfter(p.id).status = p.status
              \/ <<p.status, JobAfter(p.id).status>> \in AllowedTransitions]_vars

\* C3 witness: a Job sits in 'error' with a result left from before its failed
\* refinement, while a sibling's refinement (done->processing) is in flight
C3_Witness ==
    /\ \E p \in Jobs : p.status = "error" /\ p.processedUrl # NULL
    /\ \E p \in Jobs : p.status = "processing" /\ p.processedUrl # NULL

\* the calls started by the step
StartedCalls == {t \in tasks' : t.phase = "prep"} \ tasks

\* C4: handleCorrectImage requires the target Job to be 'done': called for an id
\* whose Job is pending, processing or in error, or for an unknown id, it starts
\* no call and leaves the Job as it is.
C4_RefineRequiresDone ==
    [][\A t \in StartedCalls :
          t.kind = "refine" => \E p \in Jobs : p.id = t.id /\ p.status = "done"]_vars

\* C5: immediately after a valid submission of N source images the collection
\* holds exactly N Jobs, every one 'pending' with a null result, before any Job
\* enters 'processing' and before any backend call is issued.
C5_AllPendingAfterSubmit ==
    [][batches' # batches =>
          /\ Len(processedImages') = Len(carImages)
          /\ \A i \in DOMAIN processedImages' :
                /\ processedImages'[i].status = "pending"
                /\ processedImages'[i].processedUrl = NULL
          /\ \A t \in tasks' : t.batch = batches' => t.phase = "prep"]_vars

\* a submission the validation must turn down: no source image, or no background
\* in a mode other than tint-turntable-only
InvalidInput ==
    \/ Len(carImages) = 0
    \/ (processingMode # "tint-turntable-only" /\ backgroundImage = NoFile)

\* C6: a submission with zero source images, or with no background while the mode
\* is not tint-turntable-only, is rejected: no Job is created, the collection is
\* left unchanged and no call is started; with valid input (in particular
\* tint-turntable-only, a source image and no background) it is never rejected,
\* and a batch that starts holds one Job per selected image.
C6_SubmissionValidation ==
    [][/\ InvalidInput =>
            /\ Ids(processedImages') = Ids(processedImages)
            /\ \A t \in StartedCalls : t.kind # "gen"
       /\ (globalError' = MissingInputMessage /\ globalError # MissingInputMessage) =>
            /\ InvalidInput
            /\ UNCHANGED <<processedImages, tasks, isProcessing>>
       /\ batches' # batches =>
            /\ ~InvalidInput
            /\ Len(processedImages') = Len(carImages)
            /\ \A i \in DOMAIN processedImages' :
                  \E t \in StartedCalls : t.kind = "gen" /\ t.id = processedImages'[i].id]_vars

\* C6 witness: a submission without background in a two-image mode has been
\* rejected, and the collection of the batch before it is still there
C6_Witness ==
    /\ globalError = MissingInputMessage
    /\ Len(processedImages) > 0
    /\ Len(carImages) > 0
    /\ processingMode # "tint-turntable-only"
    /\ backgroundImage = NoFile

\* what a call can settle with: a backend answer read by the client, a rejected
\* call, or a failure before the call
PossibleOutcomes ==
    {Settle(reply) : reply \in Replies}
      \cup {[ok |-> FALSE, url |-> NULL, thrown |-> th] :
                th \in {ReaderFailure, Thrown(TRUE, BackgroundRequired)}}

\* the call is no longer in flight after the step
Finished(t) == \A u \in tasks' : ~(u.id = t.id /\ u.slot = t.slot)

\* C7: failure isolation: when a call of a Job settles (with an image, a refusal,
\* no image or a rejection) the Job's new status and result are those of its own
\* outcome, every other Job is as before, and every other call stays in flight.
C7_FailureIsolation ==
    [][\A t \in tasks :
          Finished(t) =>
              /\ tasks' = tasks \ {t}
              /\ Len(processedImages') = Len(processedImages)
              /\ \E o \in PossibleOutcomes :
                    \A i \in DOMAIN processedImages :
                        processedImages'[i] =
                            IF processedImages[i].id # t.id THEN processedImages[i]
                            ELSE IF o.ok
                                 THEN [processedImages[i] EXCEPT
                                          !.status = "done", !.processedUrl = o.url]
                                 ELSE [processedImages[i] EXCEPT
                                          !.status = "error",
                                          !.error = ErrorMessageOf(o.thrown)]]_vars

\* C7 witness: in one batch the first Job's generation failed and the second's
\* succeeded
C7_Witness ==
    /\ Len(processedImages) = 2
    /\ processedImages[1].status = "error" /\ processedImages[1].processedUrl = NULL
    /\ processedImages[2].status = "done"

\* C8: every update caused by a Job's own call (start, success or failure of a
\* generation or refinement) changes only the record with that id; the other
\* Jobs, and the number and order of the Jobs, are unchanged.
C8_FrameOfJobUpdate ==
    [][batches' = batches =>
          /\ Len(processedImages') = Len(processedImages)
          /\ \A i \in DOMAIN processedImages :
                /\ processedImages'[i].id = processedImages[i].id
                /\ processedImages'[i] # processedImages[i] =>
                      /\ {t \in tasks' : t.id = processedImages[i].id}
                            # TasksOf(processedImages[i].id)
                      /\ \A j \in DOMAIN processedImages :
                            processedImages'[j] # processedImages[j] => j = i]_vars

\* C8 witness: two Jobs were done and the second is being refined, the first
\* keeping its result and status
C8_Witness ==
    /\ Len(processedImages) = 2
    /\ processedImages[1].status = "done" /\ processedImages[1].processedUrl # NULL
    /\ processedImages[2].status = "processing" /\ processedImages[2].processedUrl # NULL

\* C9: at every moment each Job has at most one call in flight, whatever the
\* user submits and refines.
C9_OneCallPerJob ==
    \A t, u \in tasks : t.id = u.id => t = u

\* C9 witness: the backend call of a refinement and the backend call of a
\* sibling's generation are in flight together
C9_Witness ==
    \E t, u \in tasks :
        /\ t.kind = "refine" /\ t.phase = "call"
        /\ u.kind = "gen" /\ u.phase = "call"
        /\ t.batch = u.batch

\* C10: from submission until the batch is replaced, the collection holds exactly
\* one Job per submitted source image, in submission order, with pairwise
\* distinct ids; no update changes a Job's id or its source image.
C10_OneJobPerSource ==
    [][/\ batches' # batches =>
            /\ Len(processedImages') = Len(carImages)
            /\ \A i \in DOMAIN processedImages' :
                  processedImages'[i].originalFile = carImages[i]
       /\ batches' = batches =>
            /\ Len(processedImages') = Len(processedImages)
            /\ \A i \in DOMAIN processedImages :
                  /\ processedImages'[i].id = processedImages[i].id
                  /\ processedImages'[i].originalFile = processedImages[i].originalFile
       /\ \A i, j \in DOMAIN processedImages' :
            i # j => processedImages'[i].id # processedImages'[j].id]_vars

\* C10 witness: the two Jobs of a batch are still in the collection, one of them
\* done, after the selection they were made from has changed
C10_Witness ==
    /\ Len(processedImages) = 2
    /\ Len(carImages) = 1
    /\ \E p \in Jobs : p.status = "done"

\* C11: a Job's source preview handle is released only when the batch is replaced
\* or the session ends: while the Job is in the current collection, no status
\* update of it or of a sibling revokes its preview handle.
C11_PreviewHandleLive ==
    \A p \in Jobs : p.originalUrl \notin revoked

\* a response that contains one text part and nothing else
TextOnly(candidates) ==
    /\ Len(candidates) = 1
    /\ Len(candidates[1]) = 1
    /\ candidates[1][1].kind = "text"

\* the step is the completion of call t with this backend response
Answers(t, reply) ==
    /\ t.id \in Ids(processedImages)
    /\ ~reply.rejected
    /\ BackendAnswered(t, reply)

\* C12 as stated: a Job whose generation or refinement call yields a response
\* with only a text part goes to 'error', and its error message is exactly that
\* text.
C12_RefusalTextIsMessage ==
    [][\A t \in tasks, reply \in RichReplies :
          (Answers(t, reply) /\ TextOnly(reply.candidates)) =>
              /\ JobAfter(t.id).status = "error"
              /\ JobAfter(t.id).error = reply.candidates[1][1].text]_vars

\* C12 amended: a Job whose generation or refinement call yields a response with
\* only a non-empty text part goes to 'error', and its error message is
\* 'API returned a text response instead of an image: ' followed by that text.
C12_RefusalTextInMessage ==
    [][\A t \in tasks, reply \in RichReplies :
          (/\ Answers(t, reply)
           /\ TextOnly(reply.candidates)
           /\ reply.candidates[1][1].text # <<>>) =>
              /\ JobAfter(t.id).status = "error"
              /\ JobAfter(t.id).error =
                    <<"API returned a text response instead of an image: ">>
                        \o reply.candidates[1][1].text]_vars

\* C12 witness: a Job is in 'error' with the message made of the backend's text
C12_Witness ==
    \E p \in Jobs :
        /\ p.status = "error"
        /\ p.error = <<"API returned a text response instead of an image: ", "refused">>

\* all parts of a response, candidate after candidate, in order
RECURSIVE PartsInOrder(_, _)
PartsInOrder(candidates, c) ==
    IF c > Len(candidates) THEN <<>>
    ELSE candidates[c] \o PartsInOrder(candidates, c + 1)

\* the positions of the image parts among them
ImagePositions(parts) ==
    {k \in DOMAIN parts :
        /\ parts[k].kind = "inline"
        /\ Len(parts[k].mimeType) >= 2
        /\ parts[k].mimeType[1] = "image"
        /\ parts[k].mimeType[2] = "/"}

Least(S) == CHOOSE k \in S : \A j \in S : k <= j

\* C13: for every response with at least one image part, wherever it stands among
\* text and other parts and in whichever candidate, the client returns the first
\* image part in candidate/part order and the Job goes to 'done' with that
\* non-null result; text parts never make such a response a failure.
C13_FirstImageWins ==
    [][\A t \in tasks, reply \in RichReplies :
          LET parts == PartsInOrder(reply.candidates, 1)
              images == ImagePositions(parts)
          IN  (Answers(t, reply) /\ images # {}) =>
                  LET first == parts[Least(images)]
                  IN  /\ JobAfter(t.id).status = "done"
                      /\ JobAfter(t.id).processedUrl # NULL
                      /\ JobAfter(t.id).processedUrl =
                            <<"data:">> \o first.mimeType \o <<";base64,", first.data>>]_vars

\* C13 witness: a Job is done with the image that only responses carrying text
\* (and other inline data) ahead of the image hold
C13_Witness ==
    \E p \in Jobs :
        /\ p.status = "done"
        /\ p.processedUrl = <<"data:", "image", "/", "png", ";base64,", "B">>

\* the inputs a call works on
InputsOf(t) == <<t.kind, t.file, t.background, t.mode, t.options>>

\* C14: every Job of a batch uses the mode, options and background that were
\* current at submission: changing the mode, options, source images or background
\* afterwards, while the Jobs are in flight, changes the inputs of none of them.
C14_InputsCapturedAtSubmission ==
    [][/\ \A t \in StartedCalls :
            t.kind = "gen" =>
                /\ t.background = backgroundImage
                /\ t.mode = processingMode
                /\ t.options = <<floorEffect, matchReflections, turntableTint>>
                /\ \E i \in DOMAIN carImages :
                      t.file = carImages[i] /\ t.id = processedImages'[i].id
       /\ \A t \in tasks :
            \/ Finished(t)
            \/ \E u \in tasks' :
                  u.id = t.id /\ u.slot = t.slot /\ InputsOf(u) = InputsOf(t)]_vars

\* C14 witness: the backend call of a Job is in flight after the user has picked
\* another background and other source images than the Job was submitted with
C14_Witness ==
    \E t \in tasks :
        /\ t.kind = "gen" /\ t.phase = "call"
        /\ t.background # backgroundImage
        /\ \A i \in DOMAIN carImages : carImages[i] # t.file

\* C15: whenever a batch is submitted in mode tint-turntable-only, the captured
\* turntableTint is 'red' or 'yellow', never 'none', whatever modes and options
\* were selected before.
C15_TintOnlyHasTint ==
    \A t \in tasks :
        (t.kind = "gen" /\ t.mode = "tint-turntable-only") =>
            t.options[3] \in {"red", "yellow"}

\* the text before the last '.' and the text after it (none: the whole name,
\* and no extension)
LastDot(name) ==
    IF \E k \in DOMAIN name : name[k] = "."
    THEN CHOOSE k \in DOMAIN name :
            name[k] = "." /\ \A j \in DOMAIN name : name[j] = "." => j <= k
    ELSE 0

Basename(name) == IF LastDot(name) = 0 THEN name ELSE SubSeq(name, 1, LastDot(name) - 1)

Ext(name) == IF LastDot(name) = 0 THEN <<>> ELSE SubSeq(name, LastDot(name) + 1, Len(name))

\* C16: export bundles exactly the Jobs that are 'done' at export time: one entry
\* per done Job (as many entries as done Jobs), none for a Job that is pending,
\* processing or in error, and an error Job does not abort the bundle. (Stated
\* for the exports in which no fetch failed: a failed fetch is skipped.)
C16_BundleIsTheDoneJobs ==
    [][ClickDownloadAll(TRUE, {}, TRUE) =>
              LET doneJobs == {i \in DOMAIN processedImages :
                                  processedImages[i].status = "done"}
              IN  /\ zip'.made
                  /\ Cardinality(zip'.files) = Cardinality(doneJobs)
                  /\ \A i \in doneJobs : \E e \in zip'.files :
                        /\ e.name = getOutputFilename(FileName(processedImages[i].originalFile))
                        /\ e.blob = FetchBlob(processedImages[i].processedUrl)]_vars

\* C17: for every original file name the export name is
\* '<basename>-processed.<ext>', basename the text before the last '.', ext the
\* text after it, and ext 'png' when the name has no extension (no '.' in it, or
\* nothing after the last '.').
C17_OutputFilename ==
    outputFilename # <<>> =>
        outputFilename =
            Basename(originalName) \o <<"-processed", ".">>
                \o (IF Ext(originalName) = <<>> THEN <<"png">> ELSE Ext(originalName))

\* the backend calls issued by the step
IssuedCalls == {t \in tasks' : t.phase = "call"} \ tasks

\* C18: no automatic retries: a Job gets one call per batch submission and one
\* per refinement the user asks for; each call reaches the backend at most once,
\* and when a call has failed (or succeeded) nothing is started for the Job until
\* the user acts again.
C18_NoAutomaticRetry ==
    [][/\ StartedCalls # {} =>
            \/ /\ ClickGenerate
               /\ \A i \in DOMAIN processedImages' :
                     Cardinality({t \in StartedCalls : t.id = processedImages'[i].id}) = 1
               /\ Cardinality(StartedCalls) = Len(processedImages')
            \/ /\ \E i \in DOMAIN processedImages, c \in Prompts : ClickRefineSubmit(i, c)
               /\ Cardinality(StartedCalls) = 1
       /\ \A u \in IssuedCalls :
            \E t \in tasks : t.phase = "prep" /\ t.id = u.id /\ t.slot = u.slot
       /\ \A t \in tasks :
            /\ t.phase = "call" => (t \in tasks' \/ Finished(t))
            /\ Finished(t) => (StartedCalls = {} /\ IssuedCalls = {})]_vars

\* C18 witness: a Job's call has failed and nothing is in flight for it, while
\* the call of a sibling still is
C18_Witness ==
    \E p \in Jobs :
        /\ p.status = "error"
        /\ TasksOf(p.id) = {}
        /\ \E t \in tasks : t.kind = "gen" /\ t.phase = "call" /\ t.batch = p.id[1]

\* the Job with this id is in the collection and has reached 'done' or 'error'
Terminal(id) ==
    \E p \in Jobs : p.id = id /\ p.status \in {"done", "error"}

\* C19: provided every backend call eventually resolves or rejects, after a
\* valid submission every Job of the batch (each has its generation call in
\* flight from the submission on) eventually reaches 'done' or 'error', and the
\* batch's in-progress flag eventually becomes false.
C19_BatchTerminates ==
    /\ isProcessing ~> ~isProcessing
    /\ \A id \in BatchIds :
          (\E t \in tasks : t.kind = "gen" /\ t.id = id) ~> Terminal(id)

\* C19 witness: a batch of two has ended, one Job done and one in error, the
\* flag is down and nothing is in flight
C19_Witness ==
    /\ ~isProcessing
    /\ tasks = {}
    /\ Len(processedImages) = 2
    /\ \E p \in Jobs : p.status = "done"
    /\ \E p \in Jobs : p.status = "error"

\* C20: each refinement sends the backend the Job's most recent successful
\* result, the one held in the 'done' state it starts from (not the source image,
\* not a superseded result), and on success the Job's result is replaced by the
\* newly generated image.
C20_RefinementUsesLatestResult ==
    [][/\ \A t \in StartedCalls :
            t.kind = "refine" =>
                \E p \in Jobs :
                    /\ p.id = t.id
                    /\ p.status = "done"
                    /\ LET sent == RefineRequest(t)[2]
                       IN  /\ sent.kind = "inline"
                           /\ <<"data:">> \o sent.mimeType \o <<";base64,", sent.data>>
                                 = p.processedUrl
       /\ \A t \in tasks :
            t.kind = "refine" =>
                \/ Finished(t)
                \/ \E u \in tasks' :
                      u.id = t.id /\ u.slot = t.slot /\ RefineRequest(u) = RefineRequest(t)
       /\ \A t \in tasks, reply \in RichReplies :
            (t.kind = "refine" /\ Answers(t, reply) /\ Settle(reply).ok) =>
                /\ JobAfter(t.id).status = "done"
                /\ JobAfter(t.id).processedUrl = Settle(reply).url]_vars

\* C20 witness: a refinement call carrying the result B is at the backend, B
\* being what its Job holds
C20_Witness ==
    \E t \in tasks : \E p \in Jobs :
        /\ t.kind = "refine" /\ t.phase = "call"
        /\ p.id = t.id /\ p.status = "processing"
        /\ RefineRequest(t)[2] = InlinePart(PNG, "B")
        /\ p.processedUrl = DataUrl(PNG, "B")

\* the optional clauses of a partial-wall prompt: what stands between the
\* introduction with steps 1-5 and the last clause
OptionalClauses(p) == SubSeq(p, Len(PartialWallSteps) + 1, Len(p) - 1)

\* C21: in mode 'partial-wall', for every floorEffect and matchReflections, the
\* prompt is the fixed steps 1-5, then at most one floor-effect clause (the one
\* of the chosen effect, none for 'none') followed by at most one reflections
\* clause (present exactly when matchReflections), the clauses present being
\* numbered 6, 7 without gap or repeat, then the unnumbered closing clause
C21_PartialWallNumbering ==
    (prompt # <<>> /\ promptMode = "partial-wall") =>
        LET optional == OptionalClauses(prompt)
            floor == {k \in DOMAIN optional : optional[k].text \in FloorClauses}
            reflections == {k \in DOMAIN optional : optional[k].text = Reflections}
        IN  /\ Len(prompt) > Len(PartialWallSteps)
            /\ SubSeq(prompt, 1, Len(PartialWallSteps)) = PartialWallSteps
            /\ \A k \in 1..5 : prompt[k + 1].number = k
            /\ prompt[Len(prompt)] = Closing
            /\ Closing.number = 0
            /\ floor \cup reflections = DOMAIN optional
            /\ Cardinality(floor) <= 1
            /\ Cardinality(reflections) <= 1
            /\ \A f \in floor, r \in reflections : f < r
            /\ \A k \in DOMAIN optional : optional[k].number = 5 + k
            /\ (floor = {}) <=> (promptOptions[1] = "none")
            /\ \A k \in floor :
                  optional[k].text =
                      IF promptOptions[1] = "desaturate" THEN FloorDesaturate
                      ELSE FloorTint(promptOptions[1])
            /\ (reflections # {}) <=> promptOptions[2]

\* C21 witness: the prompt of floorEffect none with matchReflections is built,
\* and the reflections clause is its clause 6
C21_Witness ==
    /\ promptMode = "partial-wall"
    /\ promptOptions[1] = "none" /\ promptOptions[2]
    /\ prompt # <<>>
    /\ Len(OptionalClauses(prompt)) = 1
    /\ OptionalClauses(prompt)[1] = Clause(6, Reflections)

\* two option sets agree on the options that apply to the mode
SameRelevantOptions(mode, a, b) ==
    IF mode = "full" THEN TRUE
    ELSE IF mode = "partial-wall" THEN a[1] = b[1] /\ a[2] = b[2]
    ELSE a[3] = b[3]

\* C22: the prompt built for a mode is the prompt of every option set that
\* differs from the one given only in options that do not apply to the mode
\* ('full': all; 'partial-wall': turntableTint; 'turntable-tint' and
\* 'tint-turntable-only': floorEffect and matchReflections)
C22_IrrelevantOptionsIgnored ==
    prompt # <<>> =>
        \A other \in AllOptions :
            SameRelevantOptions(promptMode, promptOptions, other) =>
                BuildPrompt(promptMode, other) = prompt

\* C22 witness: a prompt is built in mode 'turntable-tint' from options whose
\* floorEffect and matchReflections are not the defaults
C22_Witness ==
    /\ promptMode = "turntable-tint"
    /\ promptOptions = <<"red", TRUE, "yellow">>
    /\ prompt # <<>>
    /\ prompt = BuildPrompt("turntable-tint", <<"none", FALSE, "yellow">>)

\* the done Jobs in the order of the collection, as the export reads them
DoneJobs == SuccessfulImages(processedImages)

\* C23: when the fetch of some done Jobs' results fails during an export, the
\* bundle is still produced and holds, for every other done Job, an entry with
\* that Job's export name and that Job's result bytes
C23_FailedFetchIsSkipped ==
    [][\A failed \in SUBSET DOMAIN DoneJobs :
          (failed # {} /\ ClickDownloadAll(TRUE, failed, TRUE)) =>
              /\ zip'.made
              /\ \A k \in DOMAIN DoneJobs \ failed : \E e \in zip'.files :
                    /\ e.name = getOutputFilename(FileName(DoneJobs[k].originalFile))
                    /\ e.blob = FetchBlob(DoneJobs[k].processedUrl)]_vars

\* an initial generation call (of any batch) is in flight in this set of calls
InitialGenerationOf(calls, id) == \E t \in calls : t.kind = "gen" /\ t.id = id

\* C24: while isProcessing is true no step submits a batch (the collection keeps
\* its Jobs) and no step is an export (no archive, no export message); when a
\* step clears the flag, no Job of the batch is pending or still in its initial
\* generation call; whenever the flag is false no initial generation call is in
\* flight, so the step that replaces a batch finds none
C24_FlagGuardsTheBatch ==
    [][/\ isProcessing =>
            /\ batches' = batches
            /\ Ids(processedImages') = Ids(processedImages)
            /\ zip' = zip
            /\ globalError' \in {JSZipMissing, ZipFailed} => globalError' = globalError
       /\ (isProcessing /\ ~isProcessing') =>
            \A i \in DOMAIN processedImages' :
                /\ processedImages'[i].status # "pending"
                /\ ~InitialGenerationOf(tasks', processedImages'[i].id)
                /\ processedImages'[i].status = "processing" =>
                      \E t \in tasks' : t.kind = "refine" /\ t.id = processedImages'[i].id
       /\ ~isProcessing => \A t \in tasks : t.kind # "gen"
       /\ batches' # batches => \A t \in tasks : t.kind # "gen"]_vars

\* C24 witness: the flag is true with a call of the batch still in flight while
\* everything else the two buttons ask for is there: car images and a
\* background are selected and a Job of the batch is already done
C24_Witness ==
    /\ isProcessing
    /\ \E t \in tasks : t.kind = "gen" /\ t.batch = batches
    /\ Len(carImages) > 0 /\ backgroundImage # NoFile
    /\ hasSuccessfulProcessedImages

\* the call belongs to a batch that has since been replaced
Stale(t) == t.batch # batches

\* C25: when a call of a replaced batch completes (with an image, a refusal or a
\* rejection), the collection is as before: same Jobs in the same order, each
\* with the status, result and error it had
C25_StaleCompletionChangesNothing ==
    [][\A t \in tasks :
          (Stale(t) /\ Finished(t)) =>
              /\ t.id \notin Ids(processedImages)
              /\ processedImages' = processedImages
              /\ batches' = batches]_vars

\* C25 witness: a call of the replaced batch has completed while every Job of
\* the current batch is still in its initial generation (the only update of the
\* collection since the submission, seen by the cleanup it caused, is that call's)
C25_Witness ==
    /\ batches = 2
    /\ processedImages # <<>>
    /\ \A p \in Jobs : p.id[1] = 2 /\ p.status = "processing" /\ p.processedUrl = NULL
    /\ \A t \in tasks : ~Stale(t)
    /\ \E p \in Jobs : p.originalUrl \in revoked

\* a file of an accepted type (jpeg, png, webp) of at most 10 MB
WithinLimits(file) ==
    /\ FileType(file) \in {JPEG, PNG, WEBP}
    /\ FileSize(file) <= MAX_SIZE_MB * 1024 * 1024

\* C26: whatever way the files came in, the selected car images are at most 50
\* files, each of an accepted type and at most 10 MB, and the selected
\* background, when there is one, is of an accepted type and at most 10 MB
C26_SelectionWithinLimits ==
    /\ Len(carImages) <= 50
    /\ \A i \in DOMAIN carImages : WithinLimits(carImages[i])
    /\ backgroundImage # NoFile => WithinLimits(backgroundImage)

====
